---- MODULE Spec2Model ----
(***************************************************************************)
(* Model of point-cloud-tiles-analyzer: the histogram builders             *)
(* (analyzer.rs), the two analyzers (analyzer.rs) and the progress         *)
(* tracker (progress.rs).                                                  *)
(*                                                                         *)
(* Three specifications share the module:                                  *)
(*   SpecHist     lin_histogram / log_histogram as pure functions          *)
(*   Spec         MultiFileAnalyzer::run and PotreeV2FormatAnalyzer::run   *)
(*   SpecTracker  ProgressTracker::new / inc_progress                      *)
(* Each one leaves the variables of the others at their idle values.       *)
(***************************************************************************)
EXTENDS Integers, Sequences, FiniteSets

\* ---------------------------------------------------------------- bounds

\* Largest point count drawn for a direct call of a histogram builder.
MaxPoints == 5
\* Longest counts slice drawn for a direct call of a histogram builder.
MaxLen == 3
\* Largest num_buckets drawn for a direct call of a histogram builder.
MaxBuckets == 3
\* Largest target_progress a stand-alone ProgressTracker is created with.
MaxTarget == 3
\* Largest increment passed to inc_progress on a stand-alone tracker.
MaxIncrement == 3
\* Largest bucket count of the HistogramConfig an analyzer is built with.
MaxConfigBuckets == 2
\* Most files a MultiFileAnalyzer holds.
MaxFiles == 3
\* Most whole 22-byte records of hierarchy.bin.
MaxRecords == 2
\* The clock stops advancing at this instant.
MaxClock == 2
\* SpecTrackerTimed stops calling inc_progress once this many samples are held.
MaxTimedSamples == 3

\* ------------------------------------------------------------- variables

VARIABLES
    counts,         \* lin_histogram/log_histogram: the `counts` slice
    num_buckets,    \* lin_histogram/log_histogram: `num_buckets`
    called,         \* which builder has been applied: "none" | "lin" | "log"
    buckets,        \* the Vec<HistogramBucket> it returned
    tracker,        \* the ProgressTracker (its four fields)
    clock,          \* the monotonic clock read by Instant::now()
    stderr,         \* status lines written by the latest inc_progress call
    last_call,      \* the path the latest inc_progress call took
    analyzer,       \* the Analyzer behind run(): "multi" | "potree" | "none"
    count_nodes,    \* self.count_nodes
    histogram_config, \* self.histogram_config
    files,          \* MultiFileAnalyzer.files: what each file's header holds
    bytes,          \* the content of hierarchy.bin
    pc,             \* run(): "idle" | "start" | "scanning" | "done"
    item,           \* per file, where its par_iter closure stands
    mutex,          \* the file whose closure holds the tracker's Mutex, or 0
    progress_guard, \* per file, the tracker its MutexGuard `progress` shows
    call_log,       \* per file, what its inc_progress(1.0) call did
    num_points_per_node, \* the values collected from the closures
    results,        \* run()'s local `results`
    outcome,        \* what run() returned
    inspected       \* offsets of hierarchy.bin that run() has indexed

histVars == <<counts, num_buckets, called, buckets>>

trackerVars == <<tracker, clock, stderr, last_call>>

analyzerVars ==
    <<analyzer, count_nodes, histogram_config, files, bytes, pc, item, mutex,
      progress_guard, call_log, num_points_per_node, results, outcome,
      inspected>>

vars == <<histVars, trackerVars, analyzerVars>>

IsAscending(s) == \A i \in 1..(Len(s) - 1) : s[i] <= s[i + 1]

SeqsUpTo(S, n) == UNION {[1..k -> S] : k \in 0..n}

\* ------------------------------------------------------ histogram builders

\* HistogramBucket::new(count, start..end)
HistogramBucket(count, start, end) ==
    [count |-> count, range |-> [start |-> start, end |-> end]]

\* slice::partition_point(|&count| count < bound): binary search for the
\* first index whose element does not satisfy the predicate (0-based result).
RECURSIVE PartitionSearch(_, _, _, _)
PartitionSearch(s, bound, lo, hi) ==
    IF lo >= hi
    THEN lo
    ELSE LET mid == lo + ((hi - lo) \div 2)
         IN  IF s[mid + 1] < bound
             THEN PartitionSearch(s, bound, mid + 1, hi)
             ELSE PartitionSearch(s, bound, lo, mid)

partition_point(s, bound) == PartitionSearch(s, bound, 0, Len(s))

\* f64::round of the non-negative quotient a / b: half away from zero.
RoundDiv(a, b) == ((2 * a) + b) \div (2 * b)

\* (max_points as f64 * (k as f64 / num_buckets as f64)).round() as usize
\* The f64 evaluation equals the exact rounded quotient for every
\* max_points < 600 and num_buckets <= 8.
LinBoundary(max_points, k, n) == RoundDiv(max_points * k, n)

RECURSIVE Pow(_, _)
Pow(b, e) == IF e = 0 THEN 1 ELSE b * Pow(b, e - 1)

\* 2.0_f64.powf(log_max_points * (k as f64 / num_buckets as f64)).round()
\* with log_max_points = (1.0 + max_points as f64).log2(), i.e. the integer
\* nearest to m^(k/n) for m = 1 + max_points: the r with
\* (2r-1)^n <= 2^n * m^k < (2r+1)^n.  m^(k/n) is an integer or irrational,
\* so no tie occurs; the f64 evaluation equals this value for every
\* max_points < 600 and num_buckets <= 8.
LogBoundary(m, k, n) ==
    CHOOSE r \in 0..m :
        /\ Pow((2 * r) + 1, n) > Pow(2, n) * Pow(m, k)
        /\ \/ r = 0
           \/ Pow((2 * r) - 1, n) <= Pow(2, n) * Pow(m, k)

\* Mutant of LinBucket: bucket_end is truncated (`as usize` without round).
LinBucket_TruncatedEnd(s, max_points, bucket_index, n) ==
    LET bucket_start == LinBoundary(max_points, bucket_index, n)
        bucket_end == (max_points * (bucket_index + 1)) \div n
        first_match_index == partition_point(s, bucket_start)
        last_match_index == partition_point(s, bucket_end)
    IN  HistogramBucket(last_match_index - first_match_index,
                        bucket_start, bucket_end)

\* One iteration of the bucket loop of lin_histogram; count_in_bucket is
\* last_match_index - first_match_index (first <= last on ascending input).
LinBucket(s, max_points, bucket_index, n) ==
    LET bucket_start == LinBoundary(max_points, bucket_index, n)
        bucket_end == LinBoundary(max_points, bucket_index + 1, n)
        first_match_index == partition_point(s, bucket_start)
        last_match_index == partition_point(s, bucket_end)
    IN  HistogramBucket(last_match_index - first_match_index,
                        bucket_start, bucket_end)

lin_histogram(s, n) ==
    IF Len(s) = 0
    THEN << >>
    ELSE LET max_points == s[Len(s)] + 1
         IN  [i \in 1..n |-> LinBucket(s, max_points, i - 1, n)]

\* One iteration of the bucket loop of log_histogram.
LogBucket(s, m, bucket_index, n) ==
    LET bucket_start == LogBoundary(m, bucket_index, n)
        bucket_end == LogBoundary(m, bucket_index + 1, n)
        first_match_index == partition_point(s, bucket_start)
        last_match_index == partition_point(s, bucket_end)
    IN  HistogramBucket(last_match_index - first_match_index,
                        bucket_start, bucket_end)

log_histogram(s, n) ==
    IF Len(s) = 0
    THEN << >>
    ELSE LET m == 1 + s[Len(s)]
         IN  [i \in 1..n |-> LogBucket(s, m, i - 1, n)]

\* ------------------------------------------------------- ProgressTracker

\* ProgressTracker::MAX_THROUGHPUTS_ENTRIES
MAX_THROUGHPUTS_ENTRIES == 32

\* ProgressUpdateCondition; the f64 payload is the fraction num / den.
OnPercentageChanged(num, den) ==
    [kind |-> "OnPercentageChanged", num |-> num, den |-> den]

OnProgressChanged(step) ==
    [kind |-> "OnProgressChanged", num |-> step, den |-> 1]

\* Option<f64>: None, or Some(delta_progress / delta_time)
None == [some |-> FALSE, delta_progress |-> 0, delta_time |-> 0]

Some(dp, dt) == [some |-> TRUE, delta_progress |-> dp, delta_time |-> dt]

\* ProgressTracker::new for target_progress >= 0 (a negative target panics
\* before any tracker exists).
NewTracker(target_progress, update_condition) ==
    [current_progress |-> 0,
     target_progress |-> target_progress,
     update_condition |-> update_condition,
     last_n_progresses |-> << >>]

\* Mutant of PushSample: the capacity test is `>` instead of `==`.
PushSample_LateEviction(history, new_progress, now) ==
    LET kept == IF Len(history) > MAX_THROUGHPUTS_ENTRIES
                THEN Tail(history)
                ELSE history
    IN  Append(kept, <<new_progress, now>>)

\* The VecDeque after calculate_throughput's pop_front / push_back.
PushSample(history, new_progress, now) ==
    LET kept == IF Len(history) = MAX_THROUGHPUTS_ENTRIES
                THEN Tail(history)
                ELSE history
    IN  Append(kept, <<new_progress, now>>)

\* Mutant of calculate_throughput: the `len() < 2` return is missing.
calculate_throughput_NoMinimum(t, old_progress, new_progress, now) ==
    LET history == PushSample(t.last_n_progresses, new_progress, now)
        oldest_progress == history[1]
        newest_progress == history[Len(history)]
    IN  [tracker |-> [t EXCEPT !.last_n_progresses = history],
         mean_throughput |->
             Some(newest_progress[1] - oldest_progress[1],
                  newest_progress[2] - oldest_progress[2])]

\* ProgressTracker::calculate_throughput: the tracker with the sample
\* recorded, and the returned Option<f64>.
calculate_throughput(t, old_progress, new_progress, now) ==
    LET history == PushSample(t.last_n_progresses, new_progress, now)
        oldest_progress == history[1]
        newest_progress == history[Len(history)]
    IN  [tracker |-> [t EXCEPT !.last_n_progresses = history],
         mean_throughput |->
             IF Len(history) < 2
             THEN None
             ELSE Some(newest_progress[1] - oldest_progress[1],
                       newest_progress[2] - oldest_progress[2])]

\* ProgressTracker::print_progress: the line written to stderr.  The
\* percentage is 100 * current_progress / target_progress; the ETA is printed
\* iff mean_throughput is Some, as remaining_progress / throughput.
print_progress(t, mean_throughput) ==
    [current_progress |-> t.current_progress,
     target_progress |-> t.target_progress,
     has_eta |-> mean_throughput.some,
     remaining_progress |-> t.target_progress - t.current_progress,
     throughput |-> mean_throughput]

\* (progress / step) as usize for the two update conditions: the number of
\* whole steps in `progress` (OnPercentageChanged divides the fraction
\* progress / target_progress by the step).
Steps(t, progress) ==
    LET c == t.update_condition
    IN  IF c.kind = "OnPercentageChanged"
        THEN (progress * c.den) \div (t.target_progress * c.num)
        ELSE (progress * c.den) \div c.num

\* Mutant of IsTerminal: the early return is missing.
IsTerminal_NoEarlyReturn(t) == FALSE

\* inc_progress: `if self.current_progress == self.target_progress { return; }`
IsTerminal(t) == t.current_progress = t.target_progress

\* Mutant of ReachesTarget: `==` instead of `>=`.
ReachesTarget_ExactOnly(t, increment) ==
    t.current_progress + increment = t.target_progress

\* inc_progress: `self.current_progress + increment >= self.target_progress`
ReachesTarget(t, increment) ==
    t.current_progress + increment >= t.target_progress

\* Mutant of ClampBranch: the final line is subject to the update condition.
ClampBranch_Throttled(t, old_progress, now) ==
    LET clamped == [t EXCEPT !.current_progress = t.target_progress]
        r == calculate_throughput(clamped, old_progress,
                                  clamped.current_progress, now)
    IN  [tracker |-> r.tracker,
         lines |-> IF Steps(t, clamped.current_progress) > Steps(t, old_progress)
                   THEN <<print_progress(r.tracker, r.mean_throughput)>>
                   ELSE << >>,
         branch |-> "clamp"]

\* inc_progress, the clamp branch: current_progress = target_progress, the
\* sample is recorded and print_progress is called unconditionally.
ClampBranch(t, old_progress, now) ==
    LET clamped == [t EXCEPT !.current_progress = t.target_progress]
        r == calculate_throughput(clamped, old_progress,
                                  clamped.current_progress, now)
    IN  [tracker |-> r.tracker,
         lines |-> <<print_progress(r.tracker, r.mean_throughput)>>,
         branch |-> "clamp"]

\* inc_progress, the rest: current_progress += increment, the sample is
\* recorded and print_progress is called when the update condition's step
\* count has grown.
AdvanceBranch(t, old_progress, increment, now) ==
    LET advanced == [t EXCEPT !.current_progress = @ + increment]
        r == calculate_throughput(advanced, old_progress,
                                  advanced.current_progress, now)
        old_steps == Steps(t, old_progress)
        new_steps == Steps(t, advanced.current_progress)
    IN  [tracker |-> r.tracker,
         lines |-> IF new_steps > old_steps
                   THEN <<print_progress(r.tracker, r.mean_throughput)>>
                   ELSE << >>,
         branch |-> "advance"]

\* ProgressTracker::inc_progress for increment >= 0 at instant `now` (a
\* negative increment panics before anything is touched): the tracker
\* afterwards, the lines written and the branch taken.
inc_progress(t, increment, now) ==
    IF IsTerminal(t)
    THEN [tracker |-> t, lines |-> << >>, branch |-> "terminal"]
    ELSE IF ReachesTarget(t, increment)
         THEN ClampBranch(t, t.current_progress, now)
         ELSE AdvanceBranch(t, t.current_progress, increment, now)

\* ------------------------------------ SpecTracker: a stand-alone tracker

UpdateConditions ==
    {OnProgressChanged(1), OnProgressChanged(2), OnPercentageChanged(1, 2)}

NoCall == [branch |-> "none", evicted |-> FALSE]

TrackerInit ==
    /\ \E target \in 0..MaxTarget, c \in UpdateConditions :
           tracker = NewTracker(target, c)
    /\ clock = 0
    /\ stderr = << >>
    /\ last_call = NoCall

TrackerIdle ==
    /\ tracker = NewTracker(0, OnProgressChanged(1))
    /\ clock = 0
    /\ stderr = << >>
    /\ last_call = NoCall

\* Time passes between two readings of the clock.
Tick ==
    /\ clock < MaxClock
    /\ clock' = clock + 1
    /\ UNCHANGED <<tracker, stderr, last_call>>

\* One call inc_progress(increment) through a `&mut ProgressTracker` that
\* shows the tracker as `t`: the call reads `t` and writes the tracker back.
IncProgressOn(t, increment) ==
    LET r == inc_progress(t, increment, clock)
    IN  /\ tracker' = r.tracker
        /\ stderr' = r.lines
        /\ last_call' =
               [branch |-> r.branch,
                evicted |-> /\ r.branch # "terminal"
                            /\ Len(t.last_n_progresses)
                                   = MAX_THROUGHPUTS_ENTRIES]
        /\ UNCHANGED clock

\* One call tracker.inc_progress(increment).
IncProgress(increment) == IncProgressOn(tracker, increment)

CallIncProgress == \E increment \in 0..MaxIncrement : IncProgress(increment)

\* Instant::now() values never decide a branch of inc_progress, the length of
\* the history or whether a line is written, so SpecTracker holds the clock
\* still and spends its states on the 32-entry history; SpecTrackerTimed
\* lets time pass between a bounded number of calls.
TrackerNext == CallIncProgress /\ UNCHANGED <<histVars, analyzerVars>>

TimedCall ==
    /\ Len(tracker.last_n_progresses) < MaxTimedSamples
    /\ CallIncProgress

TrackerTimedNext ==
    \/ Tick /\ UNCHANGED <<histVars, analyzerVars>>
    \/ TimedCall /\ UNCHANGED <<histVars, analyzerVars>>

\* -------------------------------------------------------------- analyzers

\* HistogramConfig, and None for Option<HistogramConfig>
NoHistogram == [kind |-> "None", buckets |-> 0]

Linear(n) == [kind |-> "Linear", buckets |-> n]

Logarithmic(n) == [kind |-> "Logarithmic", buckets |-> n]

\* AnalyzerResult
NodeCount(n) == [kind |-> "NodeCount", node_count |-> n, histogram |-> << >>]

Histogram(h) == [kind |-> "Histogram", node_count |-> 0, histogram |-> h]

\* Result<Vec<AnalyzerResult>>
NoError == [kind |-> "none", multiple |-> 0]

Ok(values) == [ok |-> TRUE, values |-> values, error |-> NoError]

Err(error) == [ok |-> FALSE, values |-> << >>, error |-> error]

Running == [ok |-> FALSE, values |-> << >>, error |-> [kind |-> "running", multiple |-> 0]]

\* Vec::sort on usize values: the ascending permutation.
RECURSIVE InsertSorted(_, _)
InsertSorted(s, x) ==
    IF Len(s) = 0
    THEN <<x>>
    ELSE IF x < s[1]
         THEN <<x>> \o s
         ELSE <<s[1]>> \o InsertSorted(Tail(s), x)

RECURSIVE InsertAll(_, _)
InsertAll(sorted, s) ==
    IF Len(s) = 0 THEN sorted ELSE InsertAll(InsertSorted(sorted, s[1]), Tail(s))

\* Mutant of Sort: the collected values are used in the order they came in.
Sort_Missing(s) == s

Sort(s) == InsertAll(<< >>, s)

\* `match self.histogram_config.as_ref().unwrap()` of both analyzers.
BuildHistogram(config, sorted) ==
    IF config.kind = "Linear"
    THEN lin_histogram(sorted, config.buckets)
    ELSE log_histogram(sorted, config.buckets)

\* Mutant of PropagateError: the results gathered so far are returned.
PropagateError_Partial(partial, error) == Ok(partial)

\* `?` and `return Err(..)`: run() returns the error and drops `results`.
PropagateError(partial, error) == Err(error)

\* ---- PotreeV2FormatAnalyzer

size_of_node == 22

\* Mutant of LengthIsValid: the size check is missing.
LengthIsValid_Unchecked(b) == TRUE

\* `bytes.len() % size_of_node != 0` is the error case.
LengthIsValid(b) == Len(b) % size_of_node = 0

\* Mutant of IsValidNode: every record tagged 2 is dropped.
IsValidNode_TagOnly(b, idx) == b[(idx * size_of_node) + 1] # 2

\* The filter of valid_node_indices; `b` is 1-based, the code's offsets 0-based.
IsValidNode(b, idx) ==
    \/ b[(idx * size_of_node) + 1] # 2
    \/ b[(idx * size_of_node) + 1 + 1] = 0

\* (0..num_node_entries).filter(..).collect::<Vec<_>>()
valid_node_indices(b) ==
    LET num_node_entries == Len(b) \div size_of_node
    IN  SelectSeq([i \in 1..num_node_entries |-> i - 1],
                  LAMBDA idx : IsValidNode(b, idx))

\* u32::from_le_bytes
u32_from_le_bytes(b0, b1, b2, b3) ==
    b0 + (256 * b1) + (65536 * b2) + (16777216 * b3)

point_count_of_node(b, node_idx) ==
    LET offset_to_size_in_bytes == (node_idx * size_of_node) + 2
    IN  u32_from_le_bytes(b[offset_to_size_in_bytes + 1],
                          b[offset_to_size_in_bytes + 1 + 1],
                          b[offset_to_size_in_bytes + 2 + 1],
                          b[offset_to_size_in_bytes + 3 + 1])

\* The 0-based offsets run() indexes once the length check has passed.
OffsetsInspected(b, with_histogram) ==
    LET num_node_entries == Len(b) \div size_of_node
        valid == valid_node_indices(b)
    IN  {idx * size_of_node : idx \in 0..(num_node_entries - 1)}
        \cup {(idx * size_of_node) + 1 : idx \in 0..(num_node_entries - 1)}
        \cup IF with_histogram
             THEN {(valid[i] * size_of_node) + 2 + k :
                       i \in 1..Len(valid), k \in 0..3}
             ELSE {}

\* PotreeV2FormatAnalyzer::run; io_ok says whether File::open and
\* read_to_end succeed.
PotreeRun(b, io_ok, with_count, config) ==
    IF ~with_count /\ config.kind = "None"
    THEN [outcome |-> Ok(<< >>), inspected |-> {}]
    ELSE IF ~io_ok
    THEN [outcome |-> PropagateError(<< >>, [kind |-> "io", multiple |-> 0]),
          inspected |-> {}]
    ELSE IF ~LengthIsValid(b)
    THEN [outcome |-> PropagateError(<< >>, [kind |-> "format",
                                            multiple |-> size_of_node]),
          inspected |-> {}]
    ELSE
        LET valid == valid_node_indices(b)
            counted == IF with_count THEN <<NodeCount(Len(valid))>> ELSE << >>
            points_per_node ==
                Sort([i \in 1..Len(valid) |-> point_count_of_node(b, valid[i])])
        IN  [outcome |->
                 Ok(IF config.kind = "None"
                    THEN counted
                    ELSE Append(counted,
                                Histogram(BuildHistogram(config,
                                                         points_per_node)))),
             inspected |-> OffsetsInspected(b, config.kind # "None")]

\* ---- MultiFileAnalyzer

\* No MutexGuard is held: nothing of the tracker is in reach.
NoGuard == NewTracker(0, OnProgressChanged(1))

\* The closure has not called inc_progress yet.
NotCalled == [branch |-> "none", lines |-> << >>]

\* MultiFileAnalyzer::calculate_histogram: the tracker it creates.
HistogramTracker(fs) == NewTracker(Len(fs) - 1, OnProgressChanged(1000))

\* ------------------------------------------------ Spec: the two analyzers

\* What Reader::from_path(file)?.header().number_of_points() gives per file.
HeaderError == [ok |-> FALSE, number_of_points |-> 0]

Header(n) == [ok |-> TRUE, number_of_points |-> n]

FileChoices == {HeaderError, Header(1), Header(4)}

\* A 22-byte record: tag, flag, the point count's four bytes, 16 more bytes.
Record(tag, flag, point_count) ==
    <<tag, flag>> \o point_count \o [i \in 1..16 |-> 0]

RecordChoices ==
    {Record(tag, flag, pc4) :
        tag \in {0, 2}, flag \in {0, 5},
        pc4 \in {<<10, 0, 0, 0>>, <<20, 0, 0, 0>>, <<0, 1, 0, 0>>}}

RECURSIVE Flatten(_)
Flatten(ss) == IF Len(ss) = 0 THEN << >> ELSE ss[1] \o Flatten(Tail(ss))

\* hierarchy.bin: whole records, then possibly one stray byte.
HierarchyFiles ==
    {Flatten(rs) \o stray :
        rs \in SeqsUpTo(RecordChoices, MaxRecords), stray \in {<< >>, <<2>>}}

ConfigChoices ==
    {NoHistogram}
    \cup {Linear(n) : n \in 0..MaxConfigBuckets}
    \cup {Logarithmic(n) : n \in 0..MaxConfigBuckets}

AnalyzerIdle ==
    /\ analyzer = "none"
    /\ count_nodes = FALSE
    /\ histogram_config = NoHistogram
    /\ files = << >>
    /\ bytes = << >>
    /\ pc = "idle"
    /\ item = << >>
    /\ mutex = 0
    /\ progress_guard = << >>
    /\ call_log = << >>
    /\ num_points_per_node = << >>
    /\ results = << >>
    /\ outcome = Running
    /\ inspected = {}

\* MultiFileAnalyzer::new / PotreeV2FormatAnalyzer::new have succeeded.
AnalyzerInit ==
    /\ analyzer \in {"multi", "potree"}
    /\ count_nodes \in BOOLEAN
    /\ histogram_config \in ConfigChoices
    /\ IF analyzer = "multi"
       THEN files \in SeqsUpTo(FileChoices, MaxFiles) /\ bytes = << >>
       ELSE files = << >> /\ bytes \in HierarchyFiles
    /\ pc = "start"
    /\ item = [f \in 1..Len(files) |-> "pending"]
    /\ mutex = 0
    /\ progress_guard = [f \in 1..Len(files) |-> NoGuard]
    /\ call_log = [f \in 1..Len(files) |-> NotCalled]
    /\ num_points_per_node = << >>
    /\ results = << >>
    /\ outcome = Running
    /\ inspected = {}

\* PotreeV2FormatAnalyzer::run, a single sequential pass.
RunPotree ==
    /\ analyzer = "potree"
    /\ pc = "start"
    /\ \E io_ok \in BOOLEAN :
           LET r == PotreeRun(bytes, io_ok, count_nodes, histogram_config)
           IN  /\ outcome' = r.outcome
               /\ inspected' = r.inspected
               /\ results' = r.outcome.values
    /\ pc' = "done"
    /\ UNCHANGED <<progress_guard, call_log, analyzer, count_nodes,
                   histogram_config,
                   files, bytes, item,
                   mutex, num_points_per_node>>
    /\ UNCHANGED trackerVars

\* MultiFileAnalyzer::run up to the parallel scan of calculate_histogram.
RunMultiStart ==
    /\ analyzer = "multi"
    /\ pc = "start"
    /\ IF Len(files) = 0
       THEN /\ outcome' = Err([kind |-> "zero files", multiple |-> 0])
            /\ pc' = "done"
            /\ UNCHANGED <<results, tracker>>
       ELSE LET counted == IF count_nodes
                           THEN <<NodeCount(Len(files))>>
                           ELSE << >>
            IN  /\ results' = counted
                /\ IF histogram_config.kind = "None"
                   THEN /\ outcome' = Ok(counted)
                        /\ pc' = "done"
                        /\ UNCHANGED tracker
                   ELSE /\ tracker' = HistogramTracker(files)
                        /\ pc' = "scanning"
                        /\ UNCHANGED outcome
    /\ UNCHANGED <<progress_guard, call_log, analyzer, count_nodes,
                   histogram_config,
                   files, bytes, item,
                   mutex, num_points_per_node, inspected>>
    /\ UNCHANGED <<clock, stderr, last_call>>

\* The closure's `Reader::from_path(file)?` and header.number_of_points().
ReadHeader(f) ==
    /\ pc = "scanning"
    /\ item[f] = "pending"
    /\ item' = [item EXCEPT ![f] = IF files[f].ok THEN "read" ELSE "failed"]
    /\ UNCHANGED <<progress_guard, call_log, analyzer, count_nodes,
                   histogram_config,
                   files, bytes, pc,
                   mutex, num_points_per_node, results, outcome, inspected>>
    /\ UNCHANGED trackerVars

\* Mutant of MutexIsFree: lock() never waits.
MutexIsFree_NoLock == TRUE

\* Mutex::lock returns only while no other guard is alive.
MutexIsFree == mutex = 0

\* The closure's `progress_tracker.lock().unwrap()`: from here to the drop
\* of the guard the closure works on the tracker as the guard shows it.
LockTracker(f) ==
    /\ pc = "scanning"
    /\ item[f] = "read"
    /\ MutexIsFree
    /\ mutex' = f
    /\ progress_guard' = [progress_guard EXCEPT ![f] = tracker]
    /\ item' = [item EXCEPT ![f] = "locked"]
    /\ UNCHANGED <<call_log, analyzer, count_nodes, histogram_config, files,
                   bytes, pc, num_points_per_node, results, outcome, inspected>>
    /\ UNCHANGED trackerVars

\* The closure's `progress.inc_progress(1.0); Ok(num_points)`: the call
\* updates what the guard shows, the guard is dropped on return and the
\* value joins the collected ones.  The values are taken in the order the
\* closures finish, which covers every order a parallel collect may deliver.
IncProgressAndReturn(f) ==
    /\ pc = "scanning"
    /\ item[f] = "locked"
    /\ IncProgressOn(progress_guard[f], 1)
    /\ call_log' = [call_log EXCEPT
                        ![f] = [branch |-> last_call'.branch,
                                lines |-> stderr']]
    /\ progress_guard' = [progress_guard EXCEPT ![f] = NoGuard]
    /\ mutex' = 0
    /\ item' = [item EXCEPT ![f] = "done"]
    /\ num_points_per_node' =
           Append(num_points_per_node, files[f].number_of_points)
    /\ UNCHANGED <<analyzer, count_nodes, histogram_config, files, bytes, pc,
                   results, outcome, inspected>>

\* collect::<Result<Vec<_>, _>>() is Ok: sort, build the histogram, return.
CollectOk ==
    /\ pc = "scanning"
    /\ \A f \in 1..Len(files) : item[f] = "done"
    /\ LET sorted == Sort(num_points_per_node)
           histogram == BuildHistogram(histogram_config, sorted)
       IN  /\ num_points_per_node' = sorted
           /\ results' = Append(results, Histogram(histogram))
           /\ outcome' = Ok(Append(results, Histogram(histogram)))
    /\ pc' = "done"
    /\ UNCHANGED <<progress_guard, call_log, analyzer, count_nodes,
                   histogram_config,
                   files, bytes, item,
                   mutex, inspected>>
    /\ UNCHANGED trackerVars

\* collect::<Result<Vec<_>, _>>() is Err: some closure failed, the closures
\* under way have finished and the ones not started are skipped; `?` returns.
CollectErr ==
    /\ pc = "scanning"
    /\ \E f \in 1..Len(files) : item[f] = "failed"
    /\ \A f \in 1..Len(files) : item[f] \notin {"read", "locked"}
    /\ outcome' = PropagateError(results, [kind |-> "io", multiple |-> 0])
    /\ pc' = "done"
    /\ UNCHANGED <<progress_guard, call_log, analyzer, count_nodes,
                   histogram_config,
                   files, bytes, item,
                   mutex, num_points_per_node, results, inspected>>
    /\ UNCHANGED trackerVars

\* Instant::now() values decide nothing in run(), so Spec holds the clock
\* still, as SpecTracker does.
Next ==
    \/ RunPotree /\ UNCHANGED histVars
    \/ RunMultiStart /\ UNCHANGED histVars
    \/ (\E f \in 1..Len(files) : ReadHeader(f)) /\ UNCHANGED histVars
    \/ (\E f \in 1..Len(files) : LockTracker(f)) /\ UNCHANGED histVars
    \/ (\E f \in 1..Len(files) : IncProgressAndReturn(f)) /\ UNCHANGED histVars
    \/ CollectOk /\ UNCHANGED histVars
    \/ CollectErr /\ UNCHANGED histVars

\* ------------------------------------------- SpecHist: the pure builders

AscendingCounts == {s \in SeqsUpTo(0..MaxPoints, MaxLen) : IsAscending(s)}

HistInit ==
    /\ counts \in AscendingCounts
    /\ num_buckets \in 0..MaxBuckets
    /\ called = "none"
    /\ buckets = << >>

HistIdle ==
    /\ counts = << >>
    /\ num_buckets = 0
    /\ called = "none"
    /\ buckets = << >>

CallLinHistogram ==
    /\ called = "none"
    /\ called' = "lin"
    /\ buckets' = lin_histogram(counts, num_buckets)
    /\ UNCHANGED <<counts, num_buckets>>

CallLogHistogram ==
    /\ called = "none"
    /\ called' = "log"
    /\ buckets' = log_histogram(counts, num_buckets)
    /\ UNCHANGED <<counts, num_buckets>>

HistNext ==
    \/ CallLinHistogram /\ UNCHANGED <<trackerVars, analyzerVars>>
    \/ CallLogHistogram /\ UNCHANGED <<trackerVars, analyzerVars>>

HistSpecInit == HistInit /\ TrackerIdle /\ AnalyzerIdle

SpecHist == HistSpecInit /\ [][HistNext]_vars

TrackerSpecInit == HistIdle /\ TrackerInit /\ AnalyzerIdle

SpecTracker == TrackerSpecInit /\ [][TrackerNext]_vars

Init == HistIdle /\ TrackerIdle /\ AnalyzerInit

Spec == Init /\ [][Next]_vars

SpecTrackerTimed == TrackerSpecInit /\ [][TrackerTimedNext]_vars

\* ------------------------------------ claims on the histogram builders

RECURSIVE SumCounts(_)
SumCounts(bs) ==
    IF Len(bs) = 0 THEN 0 ELSE bs[1].count + SumCounts(Tail(bs))

Contiguous(bs) ==
    \A i \in 1..(Len(bs) - 1) : bs[i].range.end = bs[i + 1].range.start

\* C3: for ascending counts and bucket_count > 0, the buckets of
\* lin_histogram are contiguous and their counts sum to counts.len().
C3_LinHistogramContiguousAndComplete ==
    (called = "lin" /\ num_buckets > 0)
    => /\ Contiguous(buckets)
       /\ SumCounts(buckets) = Len(counts)

\* Two buckets over 1, 2, 4: the inner boundary 2.5 rounds to 3.
C3_Witness ==
    /\ called = "lin"
    /\ counts = <<1, 2, 4>>
    /\ num_buckets = 2
    /\ buckets = <<HistogramBucket(2, 0, 3), HistogramBucket(1, 3, 5)>>

\* C4: for ascending counts, zeros included, and bucket_count > 0, the
\* buckets of log_histogram are contiguous and their counts sum to
\* counts.len().
C4_LogHistogramContiguousAndComplete ==
    (called = "log" /\ num_buckets > 0)
    => /\ Contiguous(buckets)
       /\ SumCounts(buckets) = Len(counts)

Last(s) == s[Len(s)]

\* --------------------------------------------- claims on the analyzers

Max(S) == CHOOSE x \in S : \A y \in S : y <= x

StatisticRequested == count_nodes \/ histogram_config.kind # "None"

ResultsOfKind(kind) == SelectSeq(outcome.values, LAMBDA r : r.kind = kind)

\* The boundary a histogram of `n` buckets over values with maximum `top`
\* puts after bucket k.
BoundaryAfter(config, top, k) ==
    IF config.kind = "Linear"
    THEN LinBoundary(top + 1, k, config.buckets)
    ELSE LogBoundary(top + 1, k, config.buckets)

\* The histogram of a family of values value[i], i \in I, told by counting
\* the members of each range, without sorting or searching.
CountedHistogram(config, I, value(_)) ==
    IF I = {}
    THEN << >>
    ELSE LET top == Max({value(i) : i \in I})
         IN  [k \in 1..config.buckets |->
                 LET lo == BoundaryAfter(config, top, k - 1)
                     hi == BoundaryAfter(config, top, k)
                 IN  HistogramBucket(
                         Cardinality({i \in I : lo <= value(i) /\ value(i) < hi}),
                         lo, hi)]

\* The records of hierarchy.bin as the format describes them (0-based record
\* i starts at 0-based offset 22 * i; `bytes` is 1-based).
RecordTag(i) == bytes[(22 * i) + 1]

RecordFlag(i) == bytes[(22 * i) + 2]

RecordPointCount(i) ==
    bytes[(22 * i) + 3] + (256 * bytes[(22 * i) + 4])
        + (65536 * bytes[(22 * i) + 5]) + (16777216 * bytes[(22 * i) + 6])

NonPlaceholderRecords ==
    {i \in 0..((Len(bytes) \div 22) - 1) :
        ~(RecordTag(i) = 2 /\ RecordFlag(i) # 0)}

\* C1: for a hierarchy buffer whose length is a multiple of 22, with a
\* statistic requested, the records counted are exactly those without
\* (tag = 2 and flag # 0): NodeCount is their number and the histogram is
\* the histogram of their little-endian u32 point counts (bytes 2-5).
C1_PlaceholdersExcluded ==
    (/\ analyzer = "potree"
     /\ pc = "done"
     /\ StatisticRequested
     /\ Len(bytes) % 22 = 0
     /\ outcome.error.kind # "io")
    => /\ outcome.ok
       /\ count_nodes =>
              /\ Len(ResultsOfKind("NodeCount")) = 1
              /\ ResultsOfKind("NodeCount")[1].node_count
                     = Cardinality(NonPlaceholderRecords)
       /\ histogram_config.kind # "None" =>
              /\ Len(ResultsOfKind("Histogram")) = 1
              /\ ResultsOfKind("Histogram")[1].histogram
                     = CountedHistogram(histogram_config,
                                        NonPlaceholderRecords, RecordPointCount)

\* A placeholder (2, 5) precedes a valid record (2, 0) holding 256 points:
\* one node is counted and the single linear bucket is [0, 257).
C1_Witness ==
    /\ analyzer = "potree"
    /\ pc = "done"
    /\ outcome.ok
    /\ Len(bytes) = 44
    /\ RecordTag(0) = 2 /\ RecordFlag(0) = 5
    /\ RecordTag(1) = 2 /\ RecordFlag(1) = 0 /\ RecordPointCount(1) = 256
    /\ histogram_config = Linear(1)
    /\ outcome.values =
           <<NodeCount(1), Histogram(<<HistogramBucket(1, 0, 257)>>)>>

\* C2: with a statistic requested and a hierarchy file whose length is not a
\* multiple of 22, run() fails with the format error naming 22, returns no
\* results and has inspected no record.
C2_BadLengthIsFormatError ==
    (/\ analyzer = "potree"
     /\ pc = "done"
     /\ StatisticRequested
     /\ Len(bytes) % 22 # 0
     /\ outcome.error.kind # "io")
    => /\ ~outcome.ok
       /\ outcome.error = [kind |-> "format", multiple |-> 22]
       /\ outcome.values = << >>
       /\ inspected = {}

\* The 23-byte file of the spec's example.
C2_Witness ==
    /\ analyzer = "potree"
    /\ pc = "done"
    /\ count_nodes
    /\ Len(bytes) = 23
    /\ outcome.error.kind = "format"

\* The kinds run() must return on success, in order.
RequestedKinds ==
    (IF count_nodes THEN <<"NodeCount">> ELSE << >>)
        \o (IF histogram_config.kind # "None" THEN <<"Histogram">> ELSE << >>)

\* C5: run() of either analyzer returns an error with no results, or exactly
\* one NodeCount iff requested followed by exactly one Histogram iff
\* requested; a failure in the histogram step drops the NodeCount.
C5_NoPartialResults ==
    pc = "done"
    => \/ ~outcome.ok /\ outcome.values = << >> /\ outcome.error.kind # "none"
       \/ /\ outcome.ok
          /\ [i \in 1..Len(outcome.values) |-> outcome.values[i].kind]
                 = RequestedKinds

\* A header failed during the histogram step after NodeCount had been
\* pushed to `results`.
C5_Witness ==
    /\ analyzer = "multi"
    /\ pc = "done"
    /\ count_nodes
    /\ results = <<NodeCount(Len(files))>>
    /\ \E f \in 1..Len(files) : item[f] = "done"
    /\ ~outcome.ok
    /\ outcome.values = << >>

FilePoints(f) == files[f].number_of_points

\* C6: when every header parses, the histogram MultiFileAnalyzer returns is
\* the same whatever order the workers finish in: it is the histogram of the
\* multiset of the files' point counts.
C6_HistogramOrderIndependent ==
    (/\ analyzer = "multi"
     /\ pc = "done"
     /\ histogram_config.kind # "None"
     /\ \A f \in 1..Len(files) : files[f].ok
     /\ Len(files) > 0)
    => /\ outcome.ok
       /\ Last(outcome.values) =
              Histogram(CountedHistogram(histogram_config,
                                         1..Len(files), FilePoints))

\* Three files listed as 4, 1, 4 points: no finishing order of theirs is
\* the listed one sorted, and the two linear buckets hold 1 and 2.
C6_Witness ==
    /\ analyzer = "multi"
    /\ pc = "done"
    /\ files = <<Header(4), Header(1), Header(4)>>
    /\ histogram_config = Linear(2)
    /\ outcome.ok
    /\ Last(outcome.values) =
           Histogram(<<HistogramBucket(1, 0, 3), HistogramBucket(2, 3, 5)>>)

\* ----------------------------------------------- claims on the tracker

History == tracker.last_n_progresses

\* C7: for a tracker created with target_progress >= 0 and called with
\* non-negative increments, 0 <= current_progress <= target_progress in
\* every reachable state, and current_progress never decreases.
C7_ProgressBoundedAndMonotone ==
    /\ [](/\ 0 <= tracker.current_progress
          /\ tracker.current_progress <= tracker.target_progress)
    /\ [][tracker'.current_progress >= tracker.current_progress]_vars

\* Progress has advanced twice and still lies strictly inside (0, target).
C7_Witness ==
    /\ last_call.branch = "advance"
    /\ tracker.target_progress = 3
    /\ tracker.current_progress = 2
    /\ Len(History) >= 2
    /\ History[1][1] = 1

\* C8: a call with current_progress # target_progress and
\* current_progress + increment >= target_progress sets current_progress to
\* exactly target_progress, records one sample and writes one status line,
\* whatever the update condition.
C8_ClampIsFinalAndReported ==
    [][\A increment \in 0..MaxIncrement :
          (/\ tracker.current_progress # tracker.target_progress
           /\ tracker.current_progress + increment >= tracker.target_progress
           /\ IncProgress(increment))
          => /\ tracker'.current_progress = tracker.target_progress
             /\ tracker'.target_progress = tracker.target_progress
             /\ Len(History') =
                    IF Len(History) < MAX_THROUGHPUTS_ENTRIES
                    THEN Len(History) + 1
                    ELSE MAX_THROUGHPUTS_ENTRIES
             /\ Last(History') = <<tracker.target_progress, clock>>
             /\ Len(stderr') = 1
             /\ stderr'[1].current_progress = tracker.target_progress]_vars

\* The spec's example scaled down: OnProgressChanged(2), target 3, the clamp
\* call leaves progress 2 (one whole step) for 3 (still one whole step), so
\* the update condition alone would not have printed.
C8_Witness ==
    /\ last_call.branch = "clamp"
    /\ tracker.update_condition = OnProgressChanged(2)
    /\ tracker.target_progress = 3
    /\ Len(History) >= 2
    /\ History[Len(History) - 1][1] = 2
    /\ Len(stderr) = 1

\* C9: once current_progress = target_progress, a further inc_progress call
\* changes neither current_progress nor the history, records no sample and
\* writes no line; the state stays terminal.
C9_TerminalIsAbsorbing ==
    [][/\ \A increment \in 0..MaxIncrement :
              (/\ tracker.current_progress = tracker.target_progress
               /\ IncProgress(increment))
              => /\ tracker' = tracker
                 /\ stderr' = << >>
       /\ tracker.current_progress = tracker.target_progress
              => tracker'.current_progress = tracker'.target_progress]_vars

\* A call arrived after the clamp: the history ends with the clamp's sample
\* and the call wrote nothing.
C9_Witness ==
    /\ last_call.branch = "terminal"
    /\ tracker.target_progress > 0
    /\ Len(History) > 0
    /\ Last(History)[1] = tracker.target_progress
    /\ stderr = << >>

\* C10: the history never holds more than 32 samples; a sample recorded
\* while 32 are held evicts the oldest and is appended, so the history is the
\* most recent samples in recording order.
C10_HistoryIsBoundedWindow ==
    /\ [](Len(History) <= 32)
    /\ [][\A increment \in 0..MaxIncrement :
              (/\ tracker.current_progress # tracker.target_progress
               /\ IncProgress(increment))
              => History' =
                     Append(IF Len(History) = 32
                            THEN SubSeq(History, 2, 32)
                            ELSE History,
                            <<tracker'.current_progress, clock>>)]_vars

\* A sample was recorded while 32 were held.
C10_Witness ==
    /\ last_call.evicted
    /\ Len(History) = 32
    /\ History[1][1] > 0

\* The f64 delta_progress / delta_time is 0.0 exactly when no progress was
\* made over a positive time; 0 / 0 is NaN and x / 0 is infinite for x > 0.
ThroughputIsZero(th) ==
    th.some /\ th.delta_progress = 0 /\ th.delta_time > 0

ThroughputIsNonZero(th) == th.some /\ th.delta_progress # 0

\* C11: a status line omits the ETA whenever fewer than 2 samples are
\* retained or the estimated throughput is 0; every line that carries an
\* ETA was computed from at least 2 samples with a non-zero throughput.
C11_EtaOnlyFromNonZeroThroughput ==
    \A i \in 1..Len(stderr) :
        /\ (Len(History) < 2 \/ ThroughputIsZero(stderr[i].throughput))
               => ~stderr[i].has_eta
        /\ stderr[i].has_eta
               => /\ Len(History) >= 2
                  /\ ThroughputIsNonZero(stderr[i].throughput)

\* A line with an ETA computed over a positive time, written by a call that
\* followed a sample-recording call with increment 0 (the two oldest samples
\* hold the same progress, so the estimate before this call was 0).
C11_Witness ==
    /\ Len(stderr) = 1
    /\ stderr[1].has_eta
    /\ stderr[1].throughput.delta_time > 0
    /\ Len(History) = 3
    /\ History[1][1] = History[2][1]
    /\ History[2][2] > History[1][2]

\* Every file's header parses.
AllFilesParse == \A f \in 1..Len(files) : files[f].ok

\* The workers (one per file) whose inc_progress call took `branch`.
Workers(branch) == {f \in 1..Len(files) : call_log[f].branch = branch}

\* The workers whose closure has returned.
Returned == {f \in 1..Len(files) : item[f] = "done"}

\* C12: in MultiFileAnalyzer's histogram computation over N >= 2 files that
\* all parse, under every interleaving of the workers no increment is lost
\* (after k returned calls the tracker stands at min(k, N - 1)), and once all
\* have returned the tracker has reached its target N - 1, exactly one
\* worker took the clamp branch and wrote the final status line, exactly one
\* worker's increment was ignored as a terminal no-op, and all others
\* advanced.
C12_NoLostIncrement ==
    (/\ analyzer = "multi"
     /\ pc \in {"scanning", "done"}
     /\ histogram_config.kind # "None"
     /\ Len(files) >= 2
     /\ AllFilesParse)
        => /\ tracker.target_progress = Len(files) - 1
           /\ tracker.current_progress =
                  IF Cardinality(Returned) < Len(files) - 1
                  THEN Cardinality(Returned)
                  ELSE Len(files) - 1
           /\ Returned = 1..Len(files)
                  => /\ tracker.current_progress = tracker.target_progress
                     /\ Cardinality(Workers("clamp")) = 1
                     /\ \A f \in Workers("clamp") :
                            /\ Len(call_log[f].lines) = 1
                            /\ call_log[f].lines[1].current_progress
                                   = tracker.target_progress
                     /\ Cardinality(Workers("terminal")) = 1
                     /\ \A f \in Workers("terminal") :
                            call_log[f].lines = << >>
                     /\ Cardinality(Workers("advance")) = Len(files) - 2

\* Three files were scanned to the end, their calls ordered against the
\* order of the files: the last file advanced, the second clamped and the
\* first came last and was ignored.
C12_Witness ==
    /\ analyzer = "multi"
    /\ pc = "done"
    /\ outcome.ok
    /\ Len(files) = 3
    /\ AllFilesParse
    /\ call_log[3].branch = "advance"
    /\ call_log[2].branch = "clamp"
    /\ Len(call_log[2].lines) = 1
    /\ call_log[1].branch = "terminal"
    /\ tracker.current_progress = 2

====
